---- MODULE Spec2Model ----
(***************************************************************************)
(* The trade store of the trade tracker (store/tradeStore.ts), the form    *)
(* handlers that drive it, and the REST backend it talks to.               *)
(*                                                                         *)
(* Every handler runs on the single UI thread: it runs without             *)
(* interruption up to its first await, and its continuation runs without   *)
(* interruption once the awaited response is there.  So each handler is    *)
(* one action for its synchronous start (which leaves a request in         *)
(* flight) and one action per outcome of the request.  The backend serves  *)
(* a request at the moment its response is delivered.                      *)
(***************************************************************************)
EXTENDS Integers, Sequences, FiniteSets, TLC

\* ----------------------------------------------------------------- bounds
\* Store operations the user may start in one run (the loads the page and a
\* failed delete start on their own come on top).
MaxOps == 2

\* ------------------------------------------------------------- value sets
\* A missing identifier (undefined / null): falsy, as in `!t._id`.
NoId == 0
\* null of `error`, `formError`.
Null == "null"
\* A number input left empty (undefined, or 0): falsy, as in `!formData.entryPrice`.
Unset == 0

Sides == {"buy", "sell"}
Times == {"T1", "T2"}
\* The readings of the clock (`new Date().toISOString()`).
Clock == {"T1"}
Notes == {"", "n1"}
\* An absent optional text field of a backend record.
Undefined == "undefined"

\* ------------------------------------------------------- the calculations
\* Numbers with decimals are counted in units of their last decimal: a ratio
\* rounded to 2 decimals in hundredths, a position size (4 decimals) in
\* ten-thousandths, a quantity (6 decimals) in millionths.  Prices, amounts
\* and the leverage are whole numbers.
Abs(x) == IF x < 0 THEN -x ELSE x

\* n / d rounded to the nearest whole number (n >= 0, d > 0), as toFixed does.
RoundDiv(n, d) == (2 * n + d) \div (2 * d)

\* A ratio cut to 2 decimals instead of rounded.
calculateRR_Truncated(entryPrice, stopLoss, takeProfit) ==
  IF entryPrice = Unset \/ stopLoss = Unset \/ takeProfit = Unset THEN 0
  ELSE IF entryPrice = stopLoss THEN 0
  ELSE (100 * Abs(takeProfit - entryPrice)) \div Abs(entryPrice - stopLoss)

\* calculateRR, in hundredths.
calculateRR(entryPrice, stopLoss, takeProfit) ==
  IF entryPrice = Unset \/ stopLoss = Unset \/ takeProfit = Unset THEN 0
  ELSE LET risk == Abs(entryPrice - stopLoss)
           reward == Abs(takeProfit - entryPrice)
       IN IF risk = 0 THEN 0 ELSE RoundDiv(100 * reward, risk)

\* calculatePositionSize(riskAmount, entryPrice, stopLoss), in ten-thousandths:
\* riskAmount / |(entryPrice - stopLoss) / entryPrice|.
calculatePositionSize(riskAmount, entryPrice, stopLoss) ==
  IF riskAmount = Unset \/ entryPrice = Unset \/ stopLoss = Unset THEN 0
  ELSE IF entryPrice = stopLoss THEN 0
  ELSE RoundDiv(10000 * riskAmount * Abs(entryPrice), Abs(entryPrice - stopLoss))

\* calculateQuantity(positionSize, entryPrice), in millionths, of a position
\* size in ten-thousandths.
calculateQuantity(positionSize, entryPrice) ==
  IF positionSize = 0 \/ entryPrice = Unset THEN 0
  ELSE RoundDiv(100 * positionSize, entryPrice)

\* calculateRealizedRR(entryPrice, exitPrice, stopLoss), in hundredths.
calculateRealizedRR(entryPrice, exitPrice, stopLoss) ==
  IF entryPrice = Unset \/ exitPrice = Unset \/ stopLoss = Unset THEN 0
  ELSE LET risk == Abs(entryPrice - stopLoss)
           realizedReward == Abs(exitPrice - entryPrice)
       IN IF risk = 0 THEN 0 ELSE RoundDiv(100 * realizedReward, risk)

\* A profit and loss that takes every trade for a long one.
calculatePnL_AlwaysLong(side, entryPrice, exitPrice, quantity, fee) ==
  IF entryPrice = Unset \/ exitPrice = Unset \/ quantity = Unset THEN 0
  ELSE 100 * ((exitPrice - entryPrice) * quantity - fee)

\* calculatePnL(side, entryPrice, exitPrice, quantity, fee), in hundredths, of
\* whole prices, quantity and fee.
calculatePnL(side, entryPrice, exitPrice, quantity, fee) ==
  IF entryPrice = Unset \/ exitPrice = Unset \/ quantity = Unset THEN 0
  ELSE LET rawPnL == IF side = "buy" THEN (exitPrice - entryPrice) * quantity
                                     ELSE (entryPrice - exitPrice) * quantity
       IN 100 * (rawPnL - fee)

\* ------------------------------------------------------------ TradeRecord
\* A record as the form makes it: no exit yet, rr calculated from its prices
\* (in hundredths, as realizedRR and pnl).
Trade(id, sym, sd, ep, sl, tp, nt, et) ==
  [_id |-> id, symbol |-> sym, side |-> sd, entryPrice |-> ep, stopLoss |-> sl,
   takeProfit |-> tp, note |-> nt, entryTime |-> et,
   exitPrice |-> Unset, quantity |-> Unset, fee |-> 0,
   rr |-> calculateRR(ep, sl, tp), realizedRR |-> 0, pnl |-> 0]

\* Placeholder of an operation that carries no record.
NoTrade == Trade(NoId, "", "buy", Unset, Unset, Unset, "", "")

VARIABLES
  trades,            \* TradeState.trades
  isLoading,         \* TradeState.isLoading
  error,             \* TradeState.error
  formData,          \* TradeState.formData
  isSubmitting,      \* TradeState.isSubmitting
  formError,         \* TradeState.formError
  showForm,          \* TradeState.showForm
  isEditMode,        \* TradeState.isEditMode
  editingTradeId,    \* TradeState.editingTradeId
  validationErrors,  \* TradeState.validationErrors
  formErrors,        \* form.formState.errors of react-hook-form
  server,            \* the backend's collection, in insertion order
  nextId,            \* the next identifier the backend assigns
  inflight,          \* requests issued and not yet answered
  opCount,           \* requests issued so far
  userOps,           \* operations the user started so far
  pageLen,           \* trades.length at the page effect's last run
  last               \* the step just taken

storeVars == <<trades, isLoading, error>>
formVars == <<formData, isSubmitting, formError, showForm, isEditMode,
              editingTradeId, validationErrors, formErrors>>
netVars == <<server, nextId, inflight, opCount, userOps>>
vars == <<trades, isLoading, error, formData, isSubmitting, formError, showForm,
          isEditMode, editingTradeId, validationErrors, formErrors, server,
          nextId, inflight, opCount, userOps, pageLen, last>>

\* ---------------------------------------------------------------- helpers
\* The page's effect has run for the collection as it is: React runs pending
\* effects before it handles the next event of the user.
Rendered == pageLen = Len(trades)

\* An operation the user starts, counted against the bound.
UserOp == Rendered /\ userOps < MaxOps /\ userOps' = userOps + 1

Range(s) == {s[i] : i \in 1..Len(s)}

\* ------------------------------------------------------ requests in flight
\* A request: its number in the order of issue, the operation that issued it
\* and its arguments (for the reload after a failed delete, ids are the
\* identifiers whose delete failed), whether submitForm awaits the operation,
\* and whether no other request was in flight when it was issued.
Op(n, kind, trade, batch, ids, viaSubmit) ==
  [n |-> n, kind |-> kind, trade |-> trade, batch |-> batch, ids |-> ids,
   viaSubmit |-> viaSubmit, solo |-> inflight = {}]

NoOp ==
  [n |-> 0, kind |-> "none", trade |-> NoTrade, batch |-> <<>>, ids |-> {},
   viaSubmit |-> FALSE, solo |-> FALSE]

\* How a request can fail: a non-2xx response, or a transport error (fetch rejects).
FailKinds == {"http", "transport"}

\* error.message of the Error caught by an operation: the text thrown after
\* `!response.ok`, or the transport error's own text.
ErrorMessage(what, fail) ==
  IF fail = "http" THEN "Failed to " \o what \o ": 500" ELSE "fetch failed"

\* The step just taken: its handler, the request it answered or issued, and
\* the collection, the number of requests issued and the backend's records
\* before it.
Step(act, op) ==
  last' = [act |-> act, op |-> op, pre |-> trades, ops |-> opCount, srv |-> server]

\* ------------------------------------------------------------ the backend
\* POST /trades: the created record is the body with a fresh identifier.
ServerCreate(body, id) == [body EXCEPT !._id = id]

RECURSIVE ServerCreateAll(_, _)
\* POST /trades/bulk-create: one created record per element, in order.
ServerCreateAll(batch, id) ==
  IF batch = <<>> THEN <<>>
  ELSE <<ServerCreate(Head(batch), id)>> \o ServerCreateAll(Tail(batch), id + 1)

\* PATCH /trades/{id}: the stored record takes the body's fields.
ServerUpdate(coll, id, body) ==
  [i \in 1..Len(coll) |-> IF coll[i]._id = id THEN [body EXCEPT !._id = id] ELSE coll[i]]

\* DELETE /trades/{id} and POST /trades/bulk-delete.
ServerDelete(coll, ids) == SelectSeq(coll, LAMBDA t : t._id \notin ids)

ServerHas(id) == \E i \in 1..Len(server) : server[i]._id = id

\* --------------------------------------------------------- store: fetchTrades
\* The mapping of one backend record to the frontend format (`trade.note || ""`).
mappedTrade(t) == [t EXCEPT !.note = IF t.note = Undefined THEN "" ELSE t.note]

mappedTrades(data) == [i \in 1..Len(data) |-> mappedTrade(data[i])]

\* fetchTrades up to `await fetch(...)`: the flags, and the GET in flight.
fetchTradesStart(act, cause) ==
  LET op == Op(opCount + 1, "fetch", NoTrade, <<>>, {}, FALSE) IN
  /\ isLoading' = TRUE
  /\ error' = Null
  /\ inflight' = inflight \cup {op}
  /\ opCount' = opCount + 1
  /\ Step(act, IF cause = NoOp THEN op ELSE cause)

\* The page's effect: runs when trades.length differs from the value it last
\* ran with (and on mount), and loads when the collection is empty.
PageEffect ==
  /\ pageLen # Len(trades)
  /\ pageLen' = Len(trades)
  /\ IF Len(trades) = 0
       THEN /\ fetchTradesStart("fetchTrades", NoOp)
            /\ UNCHANGED <<trades, server, nextId, userOps>>
       ELSE /\ Step("pageEffect", NoOp)
            /\ UNCHANGED <<storeVars, netVars>>
  /\ UNCHANGED formVars

\* The GET is answered 2xx: the collection is replaced by the mapped response.
FetchOk(op) ==
  /\ op \in inflight /\ op.kind = "fetch"
  /\ trades' = mappedTrades(server)
  /\ isLoading' = FALSE
  /\ inflight' = inflight \ {op}
  /\ Step("fetchOk", op)
  /\ UNCHANGED <<error, server, nextId, opCount, userOps, pageLen, formVars>>

\* A failed load that empties the collection.
FetchFail_Clears(op, fail) ==
  /\ op \in inflight /\ op.kind = "fetch"
  /\ error' = ErrorMessage("fetch trades", fail)
  /\ trades' = <<>>
  /\ isLoading' = FALSE
  /\ inflight' = inflight \ {op}
  /\ Step("fetchFail", op)
  /\ UNCHANGED <<server, nextId, opCount, userOps, pageLen, formVars>>

\* The GET fails: catch sets the error, finally clears the flag.
FetchFail(op, fail) ==
  /\ op \in inflight /\ op.kind = "fetch"
  /\ error' = ErrorMessage("fetch trades", fail)
  /\ isLoading' = FALSE
  /\ inflight' = inflight \ {op}
  /\ Step("fetchFail", op)
  /\ UNCHANGED <<trades, server, nextId, opCount, userOps, pageLen, formVars>>

\* ------------------------------------------------------------ store: addTrade
\* addTrade up to `await fetch(...)`: the flags, the optimistic append, the POST.
addTradeStart(act, trade, viaSubmit) ==
  LET op == Op(opCount + 1, "add", trade, <<>>, {}, viaSubmit) IN
  /\ isLoading' = TRUE
  /\ error' = Null
  /\ trades' = Append(trades, trade)
  /\ inflight' = inflight \cup {op}
  /\ opCount' = opCount + 1
  /\ Step(act, op)

\* The provisional record of `trade`: same symbol, entryPrice and entryTime, no _id.
addTradeMatches(t, trade) ==
  /\ t.symbol = trade.symbol
  /\ t.entryPrice = trade.entryPrice
  /\ t.entryTime = trade.entryTime
  /\ t._id = NoId

\* A success handler that appends the created record and leaves the
\* provisional one in place.
addTradeReplace_Append(coll, trade, createdTrade) == Append(coll, createdTrade)

\* The collection after the POST succeeded with `createdTrade`.
addTradeReplace(coll, trade, createdTrade) ==
  [i \in 1..Len(coll) |-> IF addTradeMatches(coll[i], trade) THEN createdTrade ELSE coll[i]]

\* What addTrade's continuation does to the store when the POST is answered 2xx.
addTradeOk(op) ==
  LET createdTrade == ServerCreate(op.trade, nextId) IN
  /\ server' = Append(server, createdTrade)
  /\ nextId' = nextId + 1
  /\ trades' = addTradeReplace(trades, op.trade, createdTrade)
  /\ isLoading' = FALSE
  /\ UNCHANGED error

\* A failure handler that rolls the optimistic append back.
addTradeFail_Rollback(op, fail) ==
  /\ error' = ErrorMessage("add trade", fail)
  /\ trades' = SelectSeq(trades, LAMBDA t : ~addTradeMatches(t, op.trade))
  /\ isLoading' = FALSE
  /\ UNCHANGED <<server, nextId>>

\* A failure handler without the finally block: isLoading is left as it is.
addTradeFail_KeepsLoading(op, fail) ==
  /\ error' = ErrorMessage("add trade", fail)
  /\ UNCHANGED <<isLoading, trades, server, nextId>>

\* What addTrade's continuation does to the store when the POST fails.
addTradeFail(op, fail) ==
  /\ error' = ErrorMessage("add trade", fail)
  /\ isLoading' = FALSE
  /\ UNCHANGED <<trades, server, nextId>>

\* --------------------------------------------------------- store: updateTrade
\* The collection with the record of trade._id replaced by `trade`.
updateTradeReplace(coll, trade) ==
  [i \in 1..Len(coll) |-> IF coll[i]._id = trade._id THEN trade ELSE coll[i]]

\* updateTrade up to `await fetch(...)`: the flags, the optimistic replace, the PATCH.
updateTradeStart(act, trade, viaSubmit) ==
  LET op == Op(opCount + 1, "update", trade, <<>>, {}, viaSubmit) IN
  /\ isLoading' = TRUE
  /\ error' = Null
  /\ trades' = updateTradeReplace(trades, trade)
  /\ inflight' = inflight \cup {op}
  /\ opCount' = opCount + 1
  /\ Step(act, op)

\* A success handler that leaves the collection as the optimistic replace
\* made it.
updateTradeMerge_KeepLocal(coll, trade, updatedTrade) == coll

\* A success handler that appends the backend's answer to the collection.
updateTradeMerge_Append(coll, trade, updatedTrade) == Append(coll, updatedTrade)

\* `{ ...t, ...updatedTrade, _id: updatedTrade._id }` for the record of trade._id.
updateTradeMerge(coll, trade, updatedTrade) ==
  [i \in 1..Len(coll) |-> IF coll[i]._id = trade._id THEN updatedTrade ELSE coll[i]]

\* What updateTrade's continuation does to the store when the PATCH is answered 2xx.
updateTradeOk(op) ==
  LET updatedTrade == [op.trade EXCEPT !._id = op.trade._id] IN
  /\ ServerHas(op.trade._id)
  /\ server' = ServerUpdate(server, op.trade._id, op.trade)
  /\ trades' = updateTradeMerge(trades, op.trade, updatedTrade)
  /\ isLoading' = FALSE
  /\ UNCHANGED <<error, nextId>>

\* A failure handler that drops the record whose update failed.
updateTradeFail_Drop(op, fail) ==
  /\ error' = ErrorMessage("update trade", fail)
  /\ trades' = SelectSeq(trades, LAMBDA t : t._id # op.trade._id)
  /\ isLoading' = FALSE
  /\ UNCHANGED <<server, nextId>>

\* What updateTrade's continuation does to the store when the PATCH fails.
updateTradeFail(op, fail) ==
  /\ error' = ErrorMessage("update trade", fail)
  /\ isLoading' = FALSE
  /\ UNCHANGED <<trades, server, nextId>>

\* ----------------------------------------------------------- the trade form
\* An empty Record<string, string>.
NoErrors == <<>>

\* The per-field error map of a set of <<field, message>> issues.
ErrorMap(issues) ==
  [f \in {i[1] : i \in issues} |-> CHOOSE m \in {i[2] : i \in issues} : <<f, m>> \in issues]

\* getDefaultFormValues(): entryTime is the time of the call.
getDefaultFormValues(now) == Trade(NoId, "", "buy", Unset, Unset, Unset, "", now)

\* One issue when a rule fails.
Issue(failed, field, message) == IF failed THEN {<<field, message>>} ELSE {}

\* A schema without the refinement on a long trade's stop loss.
tradeFormSchema_NoLongStopLoss(data) ==
  Issue(data.symbol = "", "symbol", "Symbol is required")
  \cup Issue(data.side = "buy" /\ ~(data.takeProfit > data.entryPrice),
             "takeProfit", "For buy orders, take profit must be above entry price")
  \cup Issue(data.side = "sell" /\ ~(data.stopLoss > data.entryPrice),
             "stopLoss", "For sell orders, stop loss must be above entry price")
  \cup Issue(data.side = "sell" /\ ~(data.takeProfit < data.entryPrice),
             "takeProfit", "For sell orders, take profit must be below entry price")

\* The issues zod reports for the values of the form: the field rules, then
\* the four refinements on the price ordering, each with its path.
tradeFormSchema(data) ==
  Issue(data.symbol = "", "symbol", "Symbol is required")
  \cup Issue(data.side = "buy" /\ ~(data.stopLoss < data.entryPrice),
             "stopLoss", "For buy orders, stop loss must be below entry price")
  \cup Issue(data.side = "buy" /\ ~(data.takeProfit > data.entryPrice),
             "takeProfit", "For buy orders, take profit must be above entry price")
  \cup Issue(data.side = "sell" /\ ~(data.stopLoss > data.entryPrice),
             "stopLoss", "For sell orders, stop loss must be above entry price")
  \cup Issue(data.side = "sell" /\ ~(data.takeProfit < data.entryPrice),
             "takeProfit", "For sell orders, take profit must be below entry price")

\* onSubmit's own checks of the required fields: the first one that fails.
onSubmitRequired(data) ==
  IF data.symbol = "" THEN {<<"symbol", "Symbol is required">>}
  ELSE IF data.entryPrice = Unset THEN {<<"entryPrice", "Entry price is required">>}
  ELSE IF data.stopLoss = Unset THEN {<<"stopLoss", "Stop loss is required">>}
  ELSE IF data.takeProfit = Unset THEN {<<"takeProfit", "Take profit is required">>}
  ELSE {}

\* The draft after onSubmit pushed every defined value of the form into the
\* store with updateFormField.
pushFormData(fd, data) ==
  [fd EXCEPT !.symbol = data.symbol, !.side = data.side,
             !.entryPrice = data.entryPrice, !.stopLoss = data.stopLoss,
             !.takeProfit = data.takeProfit, !.note = data.note,
             !.rr = calculateRR(data.entryPrice, data.stopLoss, data.takeProfit),
             !.entryTime = IF data.entryTime = Undefined THEN @ ELSE data.entryTime]

\* The fields onSubmit pushes (updateFormField drops their validation errors).
pushedFields(data) ==
  {"symbol", "side", "entryPrice", "stopLoss", "takeProfit", "note", "rr",
   "positionSize", "quantity"}
  \cup (IF data.entryTime = Undefined THEN {} ELSE {"entryTime"})

\* createTradeRecord: a record without _id; entryTime falls back to the clock.
createTradeRecord(fd, now) ==
  Trade(NoId, fd.symbol, fd.side, fd.entryPrice, fd.stopLoss, fd.takeProfit,
        fd.note, IF fd.entryTime = "" THEN now ELSE fd.entryTime)

\* submitForm's check of the required fields.
submitFormRequired(fd) ==
  fd.symbol # "" /\ fd.entryPrice # Unset /\ fd.stopLoss # Unset /\ fd.takeProfit # Unset

\* A routing that looks at the edit-mode flag alone.
submitFormIsUpdate_EditModeOnly == isEditMode

\* submitForm routes to updateTrade when editing a record with an identifier.
submitFormIsUpdate == isEditMode /\ editingTradeId # NoId

\* submitForm after `await get().addTrade(...)` or `await get().updateTrade(...)`
\* returned, followed by onSubmit's form.reset().
submitFormDone ==
  /\ \E now \in Clock : formData' = getDefaultFormValues(now)
  /\ formError' = Null
  /\ validationErrors' = NoErrors
  /\ showForm' = FALSE
  /\ isEditMode' = FALSE
  /\ editingTradeId' = NoId
  /\ isSubmitting' = FALSE
  /\ formErrors' = NoErrors

\* The continuation of whoever awaited the store operation of `op`.
afterOp(op) == IF op.viaSubmit THEN submitFormDone ELSE UNCHANGED formVars

\* The values the user can have typed into the form: a long trade with its
\* stop loss below, at and above the entry price, a short trade, and a
\* required field left empty.
FormInput(sym, sd, ep, sl, tp, et) ==
  [symbol |-> sym, side |-> sd, entryPrice |-> ep, stopLoss |-> sl,
   takeProfit |-> tp, note |-> "", entryTime |-> et]

FormInputs ==
  {FormInput("BTC", "buy", 2, sl, 3, Undefined) : sl \in {1, 2, 3}}
  \cup {FormInput("BTC", "sell", 2, 3, 1, Undefined),
        FormInput("", "buy", 2, 1, 3, Undefined)}

\* A submit button that is never disabled.
SubmitEnabled_Always == TRUE

\* The submit button is disabled while a submission is in progress.
SubmitEnabled == ~isSubmitting

\* The values a submission was handed, for the record of the step.
Submitted(data) ==
  [NoOp EXCEPT !.trade = Trade(NoId, data.symbol, data.side, data.entryPrice,
                               data.stopLoss, data.takeProfit, data.note, "")]

\* form.handleSubmit(onSubmit): zod validates the values; onSubmit checks the
\* required fields, pushes the values into the draft and calls submitForm,
\* which runs up to the await of addTrade or updateTrade.
HandleSubmit(data) ==
  /\ Rendered
  /\ showForm /\ SubmitEnabled
  /\ IF tradeFormSchema(data) # {}
       THEN /\ formErrors' = ErrorMap(tradeFormSchema(data))
            /\ Step("invalid", Submitted(data))
            /\ UNCHANGED <<storeVars, netVars, formData, isSubmitting, formError,
                           showForm, isEditMode, editingTradeId, validationErrors>>
     ELSE IF onSubmitRequired(data) # {}
       THEN /\ formErrors' = ErrorMap(onSubmitRequired(data))
            /\ Step("invalid", Submitted(data))
            /\ UNCHANGED <<storeVars, netVars, formData, isSubmitting, formError,
                           showForm, isEditMode, editingTradeId, validationErrors>>
     ELSE LET fd == pushFormData(formData, data) IN
          /\ formData' = fd
          /\ validationErrors' =
               [f \in DOMAIN validationErrors \ pushedFields(data) |-> validationErrors[f]]
          /\ formErrors' = NoErrors
          /\ IF ~submitFormRequired(fd)
               THEN /\ formError' = "Please fill in all required fields"
                    /\ Step("submitFormThrow", Submitted(data))
                    /\ UNCHANGED <<storeVars, netVars, isSubmitting>>
             ELSE /\ UserOp
                  /\ isSubmitting' = TRUE
                  /\ formError' = Null
                  /\ IF submitFormIsUpdate
                       THEN updateTradeStart("submitForm", [fd EXCEPT !._id = editingTradeId], TRUE)
                       ELSE \E now \in (IF fd.entryTime = "" THEN Clock ELSE {fd.entryTime}) :
                              addTradeStart("submitForm", createTradeRecord(fd, now), TRUE)
                  /\ UNCHANGED <<server, nextId>>
          /\ UNCHANGED <<showForm, isEditMode, editingTradeId>>
  /\ UNCHANGED pageLen

\* toggleForm: the Add Trade and Cancel buttons.
ToggleForm ==
  /\ Rendered
  /\ showForm' = ~showForm
  /\ Step("toggleForm", NoOp)
  /\ UNCHANGED <<storeVars, netVars, pageLen, formData, isSubmitting, formError,
                 isEditMode, editingTradeId, validationErrors, formErrors>>

\* resetForm of the store.
resetForm ==
  /\ \E now \in Clock : formData' = getDefaultFormValues(now)
  /\ formError' = Null
  /\ validationErrors' = NoErrors
  /\ isEditMode' = FALSE
  /\ editingTradeId' = NoId

\* handleDialogChange(false): the dialog is dismissed.
HandleDialogChange ==
  /\ Rendered
  /\ showForm
  /\ showForm' = FALSE
  /\ formErrors' = NoErrors
  /\ resetForm
  /\ Step("handleDialogChange", NoOp)
  /\ UNCHANGED <<storeVars, netVars, pageLen, isSubmitting>>

\* openEditForm(row.original): a click on a row of the table.
OpenEditForm(trade) ==
  /\ Rendered
  /\ ~showForm
  /\ formData' = trade
  /\ showForm' = TRUE
  /\ isEditMode' = TRUE
  /\ editingTradeId' = trade._id
  /\ formError' = Null
  /\ validationErrors' = NoErrors
  /\ Step("openEditForm", NoOp)
  /\ UNCHANGED <<storeVars, netVars, pageLen, isSubmitting, formErrors>>

\* ---------------------------------------------- store: deleteTrade and bulk
\* deleteTrade / bulkDeleteTrades up to `await fetch(...)`: the flags, the
\* optimistic removal of the records of `ids`, and the request in flight.
deleteStart(act, kind, ids) ==
  LET op == Op(opCount + 1, kind, NoTrade, <<>>, ids, FALSE) IN
  /\ isLoading' = TRUE
  /\ error' = Null
  /\ trades' = SelectSeq(trades, LAMBDA t : t._id \notin ids)
  /\ inflight' = inflight \cup {op}
  /\ opCount' = opCount + 1
  /\ Step(act, op)

\* A failure handler that sets the error and starts no reload.
deleteFail_NoReload(op, what, fail) ==
  /\ error' = ErrorMessage(what, fail)
  /\ isLoading' = FALSE
  /\ inflight' = inflight \ {op}
  /\ UNCHANGED <<trades, server, nextId, opCount>>

\* The request of deleteTrade / bulkDeleteTrades fails: catch sets the error
\* and calls fetchTrades(), which runs up to its await (it sets isLoading and
\* clears the error, and its GET is in flight); then finally clears isLoading.
deleteFail(op, what, fail) ==
  LET caught == ErrorMessage(what, fail)
      reload == Op(opCount + 1, "fetch", NoTrade, <<>>, op.ids, FALSE)
      afterCatch == [error |-> caught, isLoading |-> isLoading]
      afterFetchStart == [error |-> Null, isLoading |-> TRUE]
      afterFinally == [afterFetchStart EXCEPT !.isLoading = FALSE]
  IN
  /\ error' = afterFinally.error
  /\ isLoading' = afterFinally.isLoading
  /\ inflight' = (inflight \ {op}) \cup {reload}
  /\ opCount' = opCount + 1
  /\ UNCHANGED <<trades, server, nextId>>

\* The records of the collection a successful bulk-create keeps: those with an
\* _id that match no record of the batch on symbol, entryPrice and entryTime.
bulkAddExisting(coll, batch) ==
  SelectSeq(coll, LAMBDA t :
    /\ t._id # NoId
    /\ ~\E k \in 1..Len(batch) :
          /\ batch[k].symbol = t.symbol
          /\ batch[k].entryPrice = t.entryPrice
          /\ batch[k].entryTime = t.entryTime)

\* bulkAddTrades up to `await fetch(...)`.
bulkAddStart(batch) ==
  LET op == Op(opCount + 1, "bulkAdd", NoTrade, batch, {}, FALSE) IN
  /\ isLoading' = TRUE
  /\ error' = Null
  /\ trades' = trades \o batch
  /\ inflight' = inflight \cup {op}
  /\ opCount' = opCount + 1
  /\ Step("bulkAddTrades", op)

\* What bulkAddTrades' continuation does to the store on a 2xx answer.
bulkAddOk(op) ==
  LET savedTrades == ServerCreateAll(op.batch, nextId) IN
  /\ server' = server \o savedTrades
  /\ nextId' = nextId + Len(op.batch)
  /\ trades' = bulkAddExisting(trades, op.batch) \o savedTrades
  /\ isLoading' = FALSE
  /\ UNCHANGED error

\* What bulkAddTrades' continuation does to the store when the request fails.
bulkAddFail(op, fail) ==
  /\ error' = ErrorMessage("bulk add trades", fail)
  /\ isLoading' = FALSE
  /\ UNCHANGED <<trades, server, nextId>>

\* ------------------------------------------------- the table's interactions
\* A save handler without the `if (!trade._id) return` line.
HandleSave_NoIdGuard(trade, editedContent) ==
  /\ ~showForm
  /\ UserOp
  /\ updateTradeStart("updateTrade", [trade EXCEPT !.note = editedContent], FALSE)
  /\ UNCHANGED <<server, nextId, pageLen, formVars>>

\* DetailModal.handleSave: the note of a record with an identifier is saved.
HandleSave(trade, editedContent) ==
  /\ ~showForm
  /\ trade._id # NoId
  /\ UserOp
  /\ updateTradeStart("updateTrade", [trade EXCEPT !.note = editedContent], FALSE)
  /\ UNCHANGED <<server, nextId, pageLen, formVars>>

\* The records createTradeRecord hands to addTrade: no _id, valid prices.
NewTrades ==
  {Trade(NoId, "BTC", "buy", 2, 1, 3, "", et) : et \in Times}

\* addTrade(newTrade), called on the store.
AddTrade(trade) ==
  /\ ~showForm
  /\ UserOp
  /\ addTradeStart("addTrade", trade, FALSE)
  /\ UNCHANGED <<server, nextId, pageLen, formVars>>

\* DeleteButton.handleDelete: a record with an identifier is deleted.
HandleDelete(trade) ==
  /\ ~showForm
  /\ trade._id # NoId
  /\ UserOp
  /\ deleteStart("deleteTrade", "delete", {trade._id})
  /\ UNCHANGED <<server, nextId, pageLen, formVars>>

\* The batches handed to bulkAddTrades.
BulkBatches ==
  {<<Trade(NoId, "BTC", "buy", 2, 1, 3, "", "T1")>>,
   <<Trade(NoId, "BTC", "buy", 2, 1, 3, "", "T1"),
     Trade(NoId, "BTC", "sell", 2, 3, 1, "", "T2")>>}

BulkAddTrades(batch) ==
  /\ ~showForm
  /\ Len(batch) # 0
  /\ UserOp
  /\ bulkAddStart(batch)
  /\ UNCHANGED <<server, nextId, pageLen, formVars>>

BulkDeleteTrades(ids) ==
  /\ ~showForm
  /\ ids # {}
  /\ UserOp
  /\ deleteStart("bulkDeleteTrades", "bulkDelete", ids)
  /\ UNCHANGED <<server, nextId, pageLen, formVars>>

\* ------------------------------------------------------ answers to requests
Answered(op, kind, act) ==
  /\ op \in inflight /\ op.kind = kind
  /\ Step(act, op)

AddOk(op) ==
  /\ Answered(op, "add", "addTradeOk")
  /\ addTradeOk(op)
  /\ inflight' = inflight \ {op}
  /\ afterOp(op)
  /\ UNCHANGED <<opCount, userOps, pageLen>>

AddFail(op, fail) ==
  /\ Answered(op, "add", "addTradeFail")
  /\ addTradeFail(op, fail)
  /\ inflight' = inflight \ {op}
  /\ afterOp(op)
  /\ UNCHANGED <<opCount, userOps, pageLen>>

UpdateOk(op) ==
  /\ Answered(op, "update", "updateTradeOk")
  /\ updateTradeOk(op)
  /\ inflight' = inflight \ {op}
  /\ afterOp(op)
  /\ UNCHANGED <<opCount, userOps, pageLen>>

UpdateFail(op, fail) ==
  /\ Answered(op, "update", "updateTradeFail")
  /\ updateTradeFail(op, fail)
  /\ inflight' = inflight \ {op}
  /\ afterOp(op)
  /\ UNCHANGED <<opCount, userOps, pageLen>>

BulkAddOk(op) ==
  /\ Answered(op, "bulkAdd", "bulkAddOk")
  /\ bulkAddOk(op)
  /\ inflight' = inflight \ {op}
  /\ UNCHANGED <<opCount, userOps, pageLen, formVars>>

BulkAddFail(op, fail) ==
  /\ Answered(op, "bulkAdd", "bulkAddFail")
  /\ bulkAddFail(op, fail)
  /\ inflight' = inflight \ {op}
  /\ UNCHANGED <<opCount, userOps, pageLen, formVars>>

\* The DELETE (or bulk-delete) is answered 2xx: finally clears the flag.
DeleteOk(op) ==
  /\ op \in inflight /\ op.kind \in {"delete", "bulkDelete"}
  /\ \A id \in op.ids : ServerHas(id)
  /\ server' = ServerDelete(server, op.ids)
  /\ isLoading' = FALSE
  /\ inflight' = inflight \ {op}
  /\ Step(IF op.kind = "delete" THEN "deleteTradeOk" ELSE "bulkDeleteOk", op)
  /\ UNCHANGED <<trades, error, nextId, opCount, userOps, pageLen, formVars>>

DeleteFail(op, fail) ==
  /\ Answered(op, "delete", "deleteTradeFail")
  /\ deleteFail(op, "delete trade", fail)
  /\ UNCHANGED <<userOps, pageLen, formVars>>

BulkDeleteFail(op, fail) ==
  /\ Answered(op, "bulkDelete", "bulkDeleteFail")
  /\ deleteFail(op, "bulk delete trades", fail)
  /\ UNCHANGED <<userOps, pageLen, formVars>>

\* ------------------------------------------------------ the table's cells
\* calculateRR of the table's utils: no check of missing values.
tableCalculateRR(entryPrice, stopLoss, takeProfit) ==
  LET risk == Abs(entryPrice - stopLoss)
      reward == Abs(takeProfit - entryPrice)
  IN IF risk = 0 THEN 0 ELSE RoundDiv(100 * reward, risk)

\* calculateRealizedRR(entryPrice, stopLoss, exitPrice) of the table's utils.
tableCalculateRealizedRR(entryPrice, stopLoss, exitPrice) ==
  LET risk == Abs(entryPrice - stopLoss)
      realizedReward == Abs(exitPrice - entryPrice)
  IN IF risk = 0 THEN 0 ELSE RoundDiv(100 * realizedReward, risk)

\* calculatePnL of the table's utils, in hundredths.
tableCalculatePnL(side, entryPrice, exitPrice, quantity, fee) ==
  LET rawPnL == IF side = "buy" THEN (exitPrice - entryPrice) * quantity
                                ELSE (entryPrice - exitPrice) * quantity
  IN 100 * (rawPnL - fee)

\* updateTradeWithCalculations(trade, fieldId, parsedValue).
updateTradeWithCalculations(trade, fieldId, parsedValue) ==
  LET updatedTrade == [trade EXCEPT ![fieldId] = parsedValue]
      withRR ==
        IF fieldId \in {"entryPrice", "stopLoss", "takeProfit"}
          THEN [updatedTrade EXCEPT
                  !.rr = tableCalculateRR(updatedTrade.entryPrice, updatedTrade.stopLoss,
                                          updatedTrade.takeProfit),
                  !.realizedRR =
                     IF updatedTrade.exitPrice # Unset
                       THEN tableCalculateRealizedRR(updatedTrade.entryPrice,
                                                     updatedTrade.stopLoss,
                                                     updatedTrade.exitPrice)
                       ELSE @]
          ELSE updatedTrade
  IN IF /\ fieldId \in {"entryPrice", "exitPrice", "quantity", "side", "fee"}
        /\ updatedTrade.entryPrice # Unset
        /\ updatedTrade.exitPrice # Unset
        /\ updatedTrade.quantity # Unset
       THEN [withRR EXCEPT
               !.pnl = tableCalculatePnL(updatedTrade.side, updatedTrade.entryPrice,
                                         updatedTrade.exitPrice, updatedTrade.quantity,
                                         updatedTrade.fee)]
       ELSE withRR

\* The columns edited in place and the values typed into them (an emptied
\* number cell gives "", which counts as unset).
CellFields == {"side", "entryPrice", "stopLoss", "takeProfit", "exitPrice", "quantity"}

CellValues(fieldId) == IF fieldId = "side" THEN Sides ELSE {Unset, 1, 5}

\* trades.find((t) => t._id === rowId)
findTrade(rowId) ==
  trades[CHOOSE i \in 1..Len(trades) :
           trades[i]._id = rowId /\ \A j \in 1..(i - 1) : trades[j]._id # rowId]

\* onCellBlur of the cell of column `fieldId` in the row of `row`, with `value`
\* typed: nothing for an unchanged value or a row without identifier, else
\* updateTrade with the recalculated record.
OnCellBlur(row, fieldId, value) ==
  /\ ~showForm
  /\ value # row[fieldId]
  /\ row._id # NoId
  /\ UserOp
  /\ updateTradeStart("onCellBlur",
                      updateTradeWithCalculations(findTrade(row._id), fieldId, value), FALSE)
  /\ UNCHANGED <<server, nextId, pageLen, formVars>>

\* The inputs the two sets of metric functions are both called with.
MetricInputs ==
  [side : Sides, entryPrice : {Unset, 1, 4}, stopLoss : {Unset, 1, 4},
   takeProfit : {Unset, 1, 4}, exitPrice : {Unset, 1, 4}, quantity : {Unset, 2},
   fee : {0, 1}]

\* The metrics of the table's utils and those of the module's utils are
\* called with the same prices, quantity and fee.
CompareMetrics(in) ==
  /\ last' =
       [act |-> "compareMetrics", in |-> in,
        table |->
          [rr |-> tableCalculateRR(in.entryPrice, in.stopLoss, in.takeProfit),
           realizedRR |-> tableCalculateRealizedRR(in.entryPrice, in.stopLoss, in.exitPrice),
           pnl |-> tableCalculatePnL(in.side, in.entryPrice, in.exitPrice, in.quantity, in.fee)],
        engine |->
          [rr |-> calculateRR(in.entryPrice, in.stopLoss, in.takeProfit),
           realizedRR |-> calculateRealizedRR(in.entryPrice, in.exitPrice, in.stopLoss),
           pnl |-> calculatePnL(in.side, in.entryPrice, in.exitPrice, in.quantity, in.fee)]]
  /\ UNCHANGED <<storeVars, netVars, pageLen, formVars>>

\* ------------------------------------------------------ store: the draft
\* The draft with its calculated fields, as getDefaultFormValues() makes it.
DraftDefaults ==
  [side |-> "buy", entryPrice |-> Unset, stopLoss |-> Unset, takeProfit |-> Unset,
   riskAmount |-> Unset, rr |-> 0, positionSize |-> 0, quantity |-> 0]

\* The values a field of the draft can be given.
DraftValues(field) ==
  IF field = "side" THEN Sides
  ELSE IF field = "riskAmount" THEN {Unset, 1}
  ELSE {Unset, 1, 2, 4}

DraftFields == {"side", "entryPrice", "stopLoss", "takeProfit", "riskAmount"}

\* updateFormField(field, value): the field is merged into the draft, its
\* validation error is dropped and formError is cleared.
updateFormField(field, value) ==
  /\ formData' = [formData EXCEPT ![field] = value]
  /\ formError' = Null
  /\ validationErrors' =
       [f \in DOMAIN validationErrors \ {field} |-> validationErrors[f]]

UpdateFormField(field, value) ==
  /\ updateFormField(field, value)
  /\ last' = [act |-> "updateFormField", field |-> field, value |-> value]
  /\ UNCHANGED <<storeVars, netVars, pageLen, isSubmitting, showForm, isEditMode,
                 editingTradeId, formErrors>>

\* ------------------------------------------- the form's derived position size
\* The values of riskAmount, the prices and leverage the form can watch.
PositionInputs ==
  [riskAmount : {Unset, 1}, entryPrice : {Unset, 1, 2, 4}, stopLoss : {Unset, 1, 2, 4},
   leverage : {Unset, 1, 2}]

\* The form's effect: `calculatePositionSize(riskAmount, entryPrice, stopLoss,
\* leverage || 1)` when the three values are present, 0 otherwise. The
\* function takes three parameters; the fourth argument is not read.
formPositionSize(in) ==
  IF in.riskAmount # Unset /\ in.entryPrice # Unset /\ in.stopLoss # Unset
    THEN calculatePositionSize(in.riskAmount, in.entryPrice, in.stopLoss)
    ELSE 0

\* The effect runs on the values watched and sets the form's positionSize.
CalculatePositionSize(in) ==
  /\ last' = [act |-> "calculatePositionSize", in |-> in,
              positionSize |-> formPositionSize(in)]
  /\ UNCHANGED <<storeVars, netVars, pageLen, formVars>>

\* ------------------------------------------------ the metrics, applied
\* The prices, quantity and fee the metrics are called with.
Prices == {Unset, 1, 2, 4}

RRInputs == [entryPrice : Prices, stopLoss : Prices, takeProfit : Prices]

PnLInputs ==
  [side : Sides, entryPrice : Prices, exitPrice : Prices, quantity : {Unset, 2},
   fee : {0, 1}]

\* calculateRR is called.
CalculateRR(in) ==
  /\ last' = [act |-> "calculateRR", in |-> in,
              rr |-> calculateRR(in.entryPrice, in.stopLoss, in.takeProfit)]
  /\ UNCHANGED <<storeVars, netVars, pageLen, formVars>>

\* calculatePnL is called.
CalculatePnL(in) ==
  /\ last' = [act |-> "calculatePnL", in |-> in,
              pnl |-> calculatePnL(in.side, in.entryPrice, in.exitPrice, in.quantity, in.fee)]
  /\ UNCHANGED <<storeVars, netVars, pageLen, formVars>>

\* ------------------------------------------------------------- statistics
\* A profit factor: Infinity, or a number in hundredths.
Infinity == [infinite |-> TRUE, value |-> 0]

Finite(v) == [infinite |-> FALSE, value |-> v]

\* `reduce((sum, trade) => sum + trade[field], 0)`.
RECURSIVE sumOf(_, _)
sumOf(coll, field) ==
  IF Len(coll) = 0 THEN 0 ELSE coll[1][field] + sumOf(Tail(coll), field)

\* `parseFloat((n / d).toFixed(2))` of a quotient of either sign, in hundredths
\* when n is in hundredths of hundredths.
RoundDivSigned(n, d) == IF n >= 0 THEN RoundDiv(n, d) ELSE -RoundDiv(-n, d)

\* A profit factor that is 0 when nothing was lost.
profitFactor_ZeroWhenNoLoss(totalProfit, totalLoss) ==
  IF totalLoss = 0 THEN Finite(0) ELSE Finite(RoundDiv(100 * totalProfit, totalLoss))

\* `totalLoss === 0 ? Infinity : parseFloat((totalProfit / totalLoss).toFixed(2))`.
profitFactor(totalProfit, totalLoss) ==
  IF totalLoss = 0 THEN Infinity ELSE Finite(RoundDiv(100 * totalProfit, totalLoss))

\* getTradeStats: the summary of a collection (the store computes it of its
\* own trades, utils of the collection it is handed; the code is the same).
getTradeStats(coll) ==
  IF Len(coll) = 0
    THEN [totalTrades |-> 0, winningTrades |-> 0, losingTrades |-> 0, winRate |-> 0,
          totalPnL |-> 0, averageRR |-> 0, averageRealizedRR |-> 0,
          profitFactor |-> Finite(0)]
    ELSE LET winningTrades == SelectSeq(coll, LAMBDA t : t.pnl > 0)
             losingTrades == SelectSeq(coll, LAMBDA t : t.pnl < 0)
             totalProfit == sumOf(winningTrades, "pnl")
             totalLoss == Abs(sumOf(losingTrades, "pnl"))
         IN [totalTrades |-> Len(coll),
             winningTrades |-> Len(winningTrades),
             losingTrades |-> Len(losingTrades),
             winRate |-> RoundDiv(Len(winningTrades) * 10000, Len(coll)),
             totalPnL |-> sumOf(coll, "pnl"),
             averageRR |-> RoundDivSigned(sumOf(coll, "rr"), Len(coll)),
             averageRealizedRR |-> RoundDivSigned(sumOf(coll, "realizedRR"), Len(coll)),
             profitFactor |-> profitFactor(totalProfit, totalLoss)]

\* The collections the statistics are taken of: up to two closed trades that
\* lost, broke even or won.
StatsRecords ==
  {[Trade(1, "BTC", "buy", 2, 1, 3, "", "T1") EXCEPT !.pnl = p] : p \in {-300, 0, 100, 200}}

StatsCollections ==
  {<<>>} \cup {<<t>> : t \in StatsRecords}
         \cup {<<t, u>> : t \in StatsRecords, u \in StatsRecords}

GetTradeStats(coll) ==
  /\ last' = [act |-> "getTradeStats", trades |-> coll, stats |-> getTradeStats(coll)]
  /\ UNCHANGED <<storeVars, netVars, pageLen, formVars>>

\* ------------------------------------------------------ export and import
\* JSON.stringify of one record: an object with a key for every field that
\* has a value; a record without an identifier has no "_id" key.
stringifyTrade(t) ==
  [k \in (IF t._id = NoId THEN DOMAIN t \ {"_id"} ELSE DOMAIN t) |-> t[k]]

\* No file: exportTrades alerted "No trades to export" and returned.
NoFile == [written |-> FALSE, objects |-> <<>>]

\* exportTrades(trades): the file the download link hands to the user.
exportTrades(coll) ==
  IF Len(coll) = 0 THEN NoFile
  ELSE [written |-> TRUE, objects |-> [i \in 1..Len(coll) |-> stringifyTrade(coll[i])]]

\* JSON.parse of one object, read as a TradeRecord: a key the object lacks
\* reads as undefined.
parseTrade(o) ==
  [k \in DOMAIN NoTrade |-> IF k \in DOMAIN o THEN o[k] ELSE NoTrade[k]]

\* The check importTrades makes of every item of the parsed array.
importIsValid(objects) ==
  \A i \in 1..Len(objects) :
    /\ "id" \in DOMAIN objects[i]
    /\ "symbol" \in DOMAIN objects[i]
    /\ "entryPrice" \in DOMAIN objects[i]

\* importTrades() with `file` selected: the promise resolves with the parsed
\* array or rejects with an error.
importTrades(file) ==
  IF ~importIsValid(file.objects)
    THEN [resolved |-> FALSE, error |-> "Invalid trades data: missing required fields",
          trades |-> <<>>]
    ELSE [resolved |-> TRUE, error |-> Null,
          trades |-> [i \in 1..Len(file.objects) |-> parseTrade(file.objects[i])]]

\* The collections handed to exportTrades: up to two records, with and
\* without an identifier.
ExportRecords ==
  {Trade(1, "BTC", "buy", 2, 1, 3, "", "T1"), Trade(NoId, "ETH", "sell", 2, 3, 1, "n1", "T2")}

ExportCollections ==
  {<<>>} \cup {<<t>> : t \in ExportRecords}
         \cup {<<t, u>> : t \in ExportRecords, u \in ExportRecords}

\* A collection is exported and, when a file was written, the file is imported.
ExportImport(coll) ==
  /\ last' = [act |-> "exportImport", trades |-> coll, file |-> exportTrades(coll),
              result |-> IF exportTrades(coll).written
                           THEN importTrades(exportTrades(coll))
                           ELSE [resolved |-> FALSE, error |-> Null, trades |-> <<>>]]
  /\ UNCHANGED <<storeVars, netVars, pageLen, formVars>>

\* ------------------------------------------------------------ specification
\* The record the backend holds before the page is opened.
ServerSeed == <<Trade(1, "BTC", "buy", 2, 1, 3, Undefined, "T1")>>

Init ==
  /\ trades = <<>>
  /\ isLoading = TRUE
  /\ error = Null
  /\ formData \in {getDefaultFormValues(now) : now \in Clock}
  /\ isSubmitting = FALSE
  /\ formError = Null
  /\ showForm = FALSE
  /\ isEditMode = FALSE
  /\ editingTradeId = NoId
  /\ validationErrors = NoErrors
  /\ formErrors = NoErrors
  /\ server = ServerSeed
  /\ nextId = 2
  /\ inflight = {}
  /\ opCount = 0
  /\ userOps = 0
  /\ pageLen = -1
  /\ last = [act |-> "init", op |-> NoOp, pre |-> <<>>, ops |-> 0, srv |-> <<>>]

\* The requests of the store's operations are answered.
Answer ==
  \/ \E op \in inflight : FetchOk(op)
  \/ \E op \in inflight, fail \in FailKinds : FetchFail(op, fail)
  \/ \E op \in inflight : AddOk(op)
  \/ \E op \in inflight, fail \in FailKinds : AddFail(op, fail)
  \/ \E op \in inflight : UpdateOk(op)
  \/ \E op \in inflight, fail \in FailKinds : UpdateFail(op, fail)
  \/ \E op \in inflight : BulkAddOk(op)
  \/ \E op \in inflight, fail \in FailKinds : BulkAddFail(op, fail)
  \/ \E op \in inflight : DeleteOk(op)
  \/ \E op \in inflight, fail \in FailKinds : DeleteFail(op, fail)
  \/ \E op \in inflight, fail \in FailKinds : BulkDeleteFail(op, fail)

\* The store's operations, called as the table and the page call them, with
\* their requests answered in any order.
Next ==
  \/ PageEffect
  \/ \E trade \in NewTrades : AddTrade(trade)
  \/ \E trade \in Range(trades), editedContent \in Notes : HandleSave(trade, editedContent)
  \/ \E trade \in Range(trades) : HandleDelete(trade)
  \/ \E batch \in BulkBatches : BulkAddTrades(batch)
  \/ \E ids \in SUBSET ({t._id : t \in Range(trades)} \ {NoId}) : BulkDeleteTrades(ids)
  \/ Answer

Spec == Init /\ [][Next]_vars

\* The trade form on top of the store: the dialog, the row click that opens it
\* for editing, and its submission through submitForm.
NextForm ==
  \/ PageEffect
  \/ \E data \in FormInputs : HandleSubmit(data)
  \/ ToggleForm
  \/ HandleDialogChange
  \/ \E trade \in Range(trades) : OpenEditForm(trade)
  \/ \E op \in inflight : FetchOk(op)
  \/ \E op \in inflight, fail \in FailKinds : FetchFail(op, fail)
  \/ \E op \in inflight : AddOk(op)
  \/ \E op \in inflight, fail \in FailKinds : AddFail(op, fail)
  \/ \E op \in inflight : UpdateOk(op)
  \/ \E op \in inflight, fail \in FailKinds : UpdateFail(op, fail)

SpecForm == Init /\ [][NextForm]_vars

\* A closed trade the backend holds before the page is opened.
CellSeed ==
  <<[Trade(1, "BTC", "buy", 2, 1, 4, "", "T1") EXCEPT
       !.exitPrice = 3, !.quantity = 1, !.realizedRR = 100, !.pnl = 100]>>

InitCell ==
  /\ trades = <<>>
  /\ isLoading = TRUE
  /\ error = Null
  /\ formData \in {getDefaultFormValues(now) : now \in Clock}
  /\ isSubmitting = FALSE
  /\ formError = Null
  /\ showForm = FALSE
  /\ isEditMode = FALSE
  /\ editingTradeId = NoId
  /\ validationErrors = NoErrors
  /\ formErrors = NoErrors
  /\ server = CellSeed
  /\ nextId = 2
  /\ inflight = {}
  /\ opCount = 0
  /\ userOps = 0
  /\ pageLen = -1
  /\ last = [act |-> "init", op |-> NoOp, pre |-> <<>>, ops |-> 0, srv |-> <<>>]

\* The cells of the table edited in place.
NextCell ==
  \/ PageEffect
  \/ \E row \in Range(trades), fieldId \in CellFields :
       \E value \in CellValues(fieldId) : OnCellBlur(row, fieldId, value)
  \/ \E op \in inflight : FetchOk(op)
  \/ \E op \in inflight, fail \in FailKinds : FetchFail(op, fail)
  \/ \E op \in inflight : UpdateOk(op)
  \/ \E op \in inflight, fail \in FailKinds : UpdateFail(op, fail)

SpecCell == InitCell /\ [][NextCell]_vars

\* The three callers of updateTrade side by side (the detail modal's save,
\* the cell edited in place, the form submitted in edit mode), over a table
\* that also holds records without an identifier: those a create appended
\* and the backend has not answered or has refused.
NextUpdate ==
  \/ PageEffect
  \/ ToggleForm
  \/ HandleSubmit(FormInput("BTC", "buy", 2, 1, 3, Undefined))
  \/ \E trade \in Range(trades) : OpenEditForm(trade)
  \/ \E trade \in Range(trades) : HandleSave(trade, "n1")
  \/ \E row \in Range(trades) : OnCellBlur(row, "takeProfit", 5)
  \/ \E op \in inflight : FetchOk(op)
  \/ \E op \in inflight : AddOk(op)
  \/ \E op \in inflight, fail \in FailKinds : AddFail(op, fail)
  \/ \E op \in inflight : UpdateOk(op)
  \/ \E op \in inflight, fail \in FailKinds : UpdateFail(op, fail)

SpecUpdate == Init /\ [][NextUpdate]_vars

\* The operations that set isLoading and isSubmitting, started from the table
\* and from the form, with their requests answered in any order.
NextFlags ==
  \/ PageEffect
  \/ ToggleForm
  \/ HandleSubmit(FormInput("BTC", "buy", 2, 1, 3, Undefined))
  \/ \E trade \in Range(trades) : OpenEditForm(trade)
  \/ \E trade \in Range(trades) : HandleDelete(trade)
  \/ \E op \in inflight : FetchOk(op)
  \/ \E op \in inflight, fail \in FailKinds : FetchFail(op, fail)
  \/ \E op \in inflight : AddOk(op)
  \/ \E op \in inflight, fail \in FailKinds : AddFail(op, fail)
  \/ \E op \in inflight : UpdateOk(op)
  \/ \E op \in inflight, fail \in FailKinds : UpdateFail(op, fail)
  \/ \E op \in inflight : DeleteOk(op)
  \/ \E op \in inflight, fail \in FailKinds : DeleteFail(op, fail)

SpecFlags == Init /\ [][NextFlags]_vars

\* The calculations and the draft on their own: the store as constructed,
\* with the draft's calculated fields.
InitCalc ==
  /\ trades = <<>>
  /\ isLoading = TRUE
  /\ error = Null
  /\ formData = DraftDefaults
  /\ isSubmitting = FALSE
  /\ formError = Null
  /\ showForm = FALSE
  /\ isEditMode = FALSE
  /\ editingTradeId = NoId
  /\ validationErrors = NoErrors
  /\ formErrors = NoErrors
  /\ server = ServerSeed
  /\ nextId = 2
  /\ inflight = {}
  /\ opCount = 0
  /\ userOps = 0
  /\ pageLen = -1
  /\ last = [act |-> "init"]

NextCalc ==
  \/ \E field \in DraftFields : \E value \in DraftValues(field) : UpdateFormField(field, value)
  \/ \E coll \in ExportCollections : ExportImport(coll)
  \/ \E coll \in StatsCollections : GetTradeStats(coll)
  \/ \E in \in PositionInputs : CalculatePositionSize(in)

SpecCalc == InitCalc /\ [][NextCalc]_vars

\* The metrics on their own, called with every combination of their inputs.
NextMetrics ==
  \/ \E in \in RRInputs : CalculateRR(in)
  \/ \E in \in PnLInputs : CalculatePnL(in)
  \/ \E in \in MetricInputs : CompareMetrics(in)

SpecMetrics == InitCalc /\ [][NextMetrics]_vars

\* ------------------------------------------------------------ the properties
\* No other request was in flight when the request of the step just taken was
\* issued, and none was issued since: the operation ran on its own.
Alone(op) == op.solo /\ opCount = op.n

\* Two records of the same trade: same symbol, entryPrice and entryTime.
SameTrade(t, u) ==
  t.symbol = u.symbol /\ t.entryPrice = u.entryPrice /\ t.entryTime = u.entryTime

Ids(coll) == {t._id : t \in Range(coll)}

FailedActs ==
  {"fetchFail", "addTradeFail", "updateTradeFail", "bulkAddFail",
   "deleteTradeFail", "bulkDeleteFail"}

C2_FailedDeleteReloads ==
  /\ last.act \in {"deleteTradeFail", "bulkDeleteFail"} =>
       /\ opCount = last.ops + 1
       /\ \E op \in inflight : op.kind = "fetch" /\ op.n = opCount /\ op.ids = last.op.ids
  /\ (last.act = "fetchOk" /\ last.op.ids # {}) =>
       /\ Len(trades) = Len(server)
       /\ \A i \in 1..Len(server) :
            /\ trades[i]._id = server[i]._id
            /\ trades[i].symbol = server[i].symbol
            /\ trades[i].side = server[i].side
            /\ trades[i].entryPrice = server[i].entryPrice
            /\ trades[i].stopLoss = server[i].stopLoss
            /\ trades[i].takeProfit = server[i].takeProfit
            /\ trades[i].entryTime = server[i].entryTime
            /\ trades[i].note = (IF server[i].note = Undefined THEN "" ELSE server[i].note)

C2_Witness ==
  /\ last.act = "fetchOk"
  /\ \E id \in last.op.ids : id \in Ids(server) /\ id \in Ids(trades) /\ id \notin Ids(last.pre)

\* C3: every network operation of the store that fails leaves a non-empty
\* error in the state reached when it completes.
C3_FailureSetsError ==
  last.act \in FailedActs => error \notin {Null, ""}

\* C4: a record without identifier that no request in flight carries (it was
\* kept after its create failed) is still in the collection after a load or a
\* bulkCreate issued after that create has succeeded.
C4_RetainedRecordsSurvive ==
  (last.act \in {"fetchOk", "bulkAddOk"} /\ last.op.n = opCount) =>
    \A i \in 1..Len(last.pre) :
      (/\ last.pre[i]._id = NoId
       /\ \A op \in inflight \cup {last.op} :
            /\ op.trade # last.pre[i]
            /\ last.pre[i] \notin Range(op.batch))
      => \E j \in 1..Len(trades) : SameTrade(trades[j], last.pre[i])

\* C5: when a create that ran on its own succeeds, the server-returned record,
\* with its identifier, stands where the provisional record stood, the other
\* records are as before, and no record of that trade is left without
\* identifier.
C5_CreateSuccessReplacesProvisional ==
  (last.act = "addTradeOk" /\ Alone(last.op)) =>
    LET created == server[Len(server)] IN
    /\ created._id # NoId
    /\ created = [last.op.trade EXCEPT !._id = created._id]
    /\ Len(trades) = Len(last.pre)
    /\ last.pre[Len(last.pre)] = last.op.trade
    /\ trades[Len(trades)] = created
    /\ \A i \in 1..Len(trades) :
         /\ ~(SameTrade(trades[i], last.op.trade) /\ trades[i]._id = NoId)
         /\ trades[i] # created => trades[i] = last.pre[i]

C5_Witness ==
  /\ last.act = "addTradeOk"
  /\ Alone(last.op)
  /\ Len(trades) >= 2
  /\ trades[Len(trades)]._id = nextId - 1
  /\ last.pre[Len(trades)]._id = NoId

C7_LoadFailureKeepsCollection ==
  last.act = "fetchFail" => (error \notin {Null, ""} /\ trades = last.pre)

C7_Witness ==
  /\ last.act = "fetchFail"
  /\ trades # <<>>
  /\ error = "Failed to fetch trades: 500"

\* C8: while the GET of a load is in flight isLoading is true.
C8_LoadingWhileLoadInFlight ==
  (\E op \in inflight : op.kind = "fetch") => isLoading

\* The steps of a submission: rejected by the validation, rejected by
\* submitForm, or passed on to addTrade or updateTrade.
SubmitActs == {"invalid", "submitFormThrow", "submitForm"}

FormIsReset ==
  /\ formData \in {getDefaultFormValues(now) : now \in Clock}
  /\ ~showForm
  /\ ~isEditMode
  /\ editingTradeId = NoId

ReturnedActs == {"addTradeOk", "addTradeFail", "updateTradeOk", "updateTradeFail"}

\* C10 as stated: a submission that passed validation calls update with the
\* edited record's identifier if edit mode is on and create otherwise, and
\* when that call has returned the form is reset and closed.
C10_SubmitRoutesOnEditMode ==
  /\ last.act = "submitForm" =>
       IF isEditMode
         THEN last.op.kind = "update" /\ last.op.trade._id = editingTradeId
         ELSE last.op.kind = "add"
  /\ (last.act \in ReturnedActs /\ last.op.viaSubmit) => FormIsReset

\* C10: a submission that passed validation calls update with the edited
\* record's identifier if edit mode is on and editingTradeId is set, and
\* create otherwise (in edit mode on a record without identifier too); when
\* that call has returned the draft is the default one, the form is closed,
\* edit mode is off and editingTradeId is null.
C10_SubmitRoutesOnEditModeAndId ==
  /\ last.act = "submitForm" =>
       IF isEditMode /\ editingTradeId # NoId
         THEN /\ last.op.kind = "update"
              /\ last.op.trade._id = editingTradeId
              /\ last.op \in inflight
         ELSE /\ last.op.kind = "add"
              /\ last.op.trade._id = NoId
              /\ last.op \in inflight
  /\ (last.act \in ReturnedActs /\ last.op.viaSubmit) => FormIsReset

C10_Witness ==
  /\ last.act = "submitForm"
  /\ isEditMode
  /\ editingTradeId = NoId
  /\ last.op.kind = "add"

\* The requests in flight that a submission of the form awaits.
SubmitsInFlight == {op \in inflight : op.viaSubmit}

C12_DraftRecalculated ==
  (last.act = "updateFormField" /\ last.field \in DraftFields) =>
    /\ formData.rr = calculateRR(formData.entryPrice, formData.stopLoss, formData.takeProfit)
    /\ formData.positionSize =
         calculatePositionSize(formData.riskAmount, formData.entryPrice, formData.stopLoss)
    /\ formData.quantity =
         calculateQuantity(
           calculatePositionSize(formData.riskAmount, formData.entryPrice, formData.stopLoss),
           formData.entryPrice)

\* The record onCellBlur handed to updateTrade, and the row as it was.
Edited == last.op.trade

Original ==
  last.pre[CHOOSE i \in 1..Len(last.pre) : last.pre[i]._id = last.op.trade._id]

\* C13: the record a cell edit of entryPrice, stopLoss, takeProfit or
\* exitPrice hands to update (its three prices present) has rr calculated from
\* its new prices and, with an exit price, realizedRR calculated from them too.
C13_CellEditRecalculatesRatios ==
  (/\ last.act = "onCellBlur"
   /\ \E f \in {"entryPrice", "stopLoss", "takeProfit", "exitPrice"} : Edited[f] # Original[f]
   /\ Edited.entryPrice # Unset /\ Edited.stopLoss # Unset /\ Edited.takeProfit # Unset) =>
    /\ Edited.rr = calculateRR(Edited.entryPrice, Edited.stopLoss, Edited.takeProfit)
    /\ Edited.exitPrice # Unset =>
         Edited.realizedRR =
           calculateRealizedRR(Edited.entryPrice, Edited.exitPrice, Edited.stopLoss)

\* C14: the record a cell edit produces has no pnl (0) when its entryPrice,
\* exitPrice or quantity is missing or zero.
C14_CellEditDropsStalePnl ==
  (/\ last.act = "onCellBlur"
   /\ (Edited.entryPrice = Unset \/ Edited.exitPrice = Unset \/ Edited.quantity = Unset)) =>
    Edited.pnl = 0

\* The side-aware ordering of a record's prices.
PriceOrdered(t) ==
  IF t.side = "buy"
    THEN t.stopLoss < t.entryPrice /\ t.entryPrice < t.takeProfit
    ELSE t.takeProfit < t.entryPrice /\ t.entryPrice < t.stopLoss

\* C15: every record of the collection, and every record sent to the
\* backend, has its prices in the order of its side.
C15_RecordsPriceOrdered ==
  /\ \A t \in Range(trades) : PriceOrdered(t)
  /\ \A op \in inflight : op.kind = "update" => PriceOrdered(op.trade)

\* C16: no update request is in flight for a record without an identifier,
\* and a step of updateTrade (its optimistic replace, its merge of the
\* backend's answer) leaves every record without an identifier as it was,
\* whichever caller started it.
UpdateActs == {"updateTrade", "onCellBlur", "submitForm", "updateTradeOk"}

C16_UpdateNeedsIdentifier ==
  /\ \A op \in inflight : op.kind = "update" => op.trade._id # NoId
  /\ (last.op.kind = "update" /\ last.act \in UpdateActs) =>
       /\ last.op.trade._id # NoId
       /\ Len(trades) = Len(last.pre)
       /\ \A i \in 1..Len(last.pre) : last.pre[i]._id = NoId => trades[i] = last.pre[i]

\* An update has just been started or answered over a table holding a record
\* without an identifier.
C16_Witness ==
  /\ last.op.kind = "update" /\ last.act \in UpdateActs
  /\ \E i \in 1..Len(last.pre) : last.pre[i]._id = NoId

\* C17: a non-empty collection exported to JSON and imported again is
\* accepted by the import and comes back equal, record for record and field
\* for field.
C17_ExportImportRoundTrip ==
  (last.act = "exportImport" /\ Len(last.trades) > 0) =>
    /\ last.file.written
    /\ last.result.resolved
    /\ last.result.trades = last.trades

\* The winnings and the losses of a collection: the sum of its positive pnl
\* values and the size of the sum of its negative ones.
TotalProfit(coll) == sumOf(SelectSeq(coll, LAMBDA t : t.pnl > 0), "pnl")

TotalLoss(coll) == Abs(sumOf(SelectSeq(coll, LAMBDA t : t.pnl < 0), "pnl"))

NoLosingTrade(coll) == \A t \in Range(coll) : ~(t.pnl < 0)

\* C18 as stated: the profit factor of a collection with no losing trade, the
\* empty collection included, is infinite; of any other collection it is
\* totalProfit / |totalLoss|.
C18_ProfitFactor ==
  last.act = "getTradeStats" =>
    IF NoLosingTrade(last.trades)
      THEN last.stats.profitFactor = Infinity
      ELSE last.stats.profitFactor =
             Finite(RoundDiv(100 * TotalProfit(last.trades), TotalLoss(last.trades)))

\* C18, amended: the profit factor of the empty collection is 0; of a
\* non-empty collection with no losing trade it is infinite; of any other
\* collection it is totalProfit / |totalLoss| rounded to two decimals.
C18_ProfitFactorOfNonEmpty ==
  last.act = "getTradeStats" =>
    IF Len(last.trades) = 0
      THEN last.stats.profitFactor = Finite(0)
    ELSE IF NoLosingTrade(last.trades)
      THEN last.stats.profitFactor = Infinity
      ELSE last.stats.profitFactor =
             Finite(RoundDiv(100 * TotalProfit(last.trades), TotalLoss(last.trades)))

\* The statistics of a non-empty collection with a winning and no losing
\* trade have been taken.
C18_Witness ==
  /\ last.act = "getTradeStats"
  /\ Len(last.trades) > 0
  /\ NoLosingTrade(last.trades)
  /\ TotalProfit(last.trades) > 0
  /\ last.stats.profitFactor = Infinity

\* The record of the update just started or answered is the one the
\* collection already held under its identifier.
UnchangedRecord ==
  /\ \E t \in Range(last.pre) : t._id = last.op.trade._id
  /\ \A t \in Range(last.pre) : t._id = last.op.trade._id => t = last.op.trade

\* C19: an update that ran on its own and succeeded leaves the collection
\* holding its record; a further update with that same record, started and
\* answered with the same response, leaves the collection as the first one
\* left it.
C19_UpdateIdempotent ==
  /\ (last.act = "updateTradeOk" /\ Alone(last.op)) =>
       \A t \in Range(trades) : t._id = last.op.trade._id => t = last.op.trade
  /\ (last.act \in {"updateTrade", "updateTradeOk"} /\ UnchangedRecord) =>
       trades = last.pre

\* The second of two updates with the same record has succeeded: the
\* collection and the backend held the record, as the first had left it,
\* before it was answered.
C19_Witness ==
  /\ last.act = "updateTradeOk"
  /\ last.op.n = 3 /\ last.op.solo /\ inflight = {}
  /\ last.op.trade.note = "n1"
  /\ UnchangedRecord
  /\ \E t \in Range(last.srv) : t = last.op.trade

\* C20: the position size of non-zero riskAmount, entryPrice and stopLoss with
\* entryPrice different from stopLoss is riskAmount / (|entryPrice - stopLoss|
\* / entryPrice) * leverage (leverage 1 when none is given), in
\* ten-thousandths; it is 0 when riskAmount, entryPrice or stopLoss is missing
\* or zero.
Leverage(in) == IF in.leverage = Unset THEN 1 ELSE in.leverage

C20_PositionSizeScalesWithLeverage ==
  last.act = "calculatePositionSize" =>
    IF last.in.riskAmount = Unset \/ last.in.entryPrice = Unset \/ last.in.stopLoss = Unset
      THEN last.positionSize = 0
    ELSE last.in.entryPrice # last.in.stopLoss =>
           last.positionSize =
             RoundDiv(10000 * last.in.riskAmount * last.in.entryPrice * Leverage(last.in),
                      Abs(last.in.entryPrice - last.in.stopLoss))

\* C21: the profit and loss of a trade with its entry price, exit price and
\* quantity present is (exitPrice - entryPrice) * quantity - fee for a buy and
\* (entryPrice - exitPrice) * quantity - fee for a sell (in hundredths); it
\* is 0 when one of the three is missing or zero, whatever the fee.
C21_ProfitAndLoss ==
  last.act = "calculatePnL" =>
    IF last.in.entryPrice = Unset \/ last.in.exitPrice = Unset \/ last.in.quantity = Unset
      THEN last.pnl = 0
    ELSE IF last.in.side = "buy"
      THEN last.pnl =
             100 * ((last.in.exitPrice - last.in.entryPrice) * last.in.quantity - last.in.fee)
      ELSE last.pnl =
             100 * ((last.in.entryPrice - last.in.exitPrice) * last.in.quantity - last.in.fee)

\* The profit and loss of a short trade that fell, with a fee, has been
\* calculated.
C21_Witness ==
  /\ last.act = "calculatePnL"
  /\ last.in.side = "sell" /\ last.in.entryPrice = 4 /\ last.in.exitPrice = 1
  /\ last.in.quantity = 2 /\ last.in.fee = 1
  /\ last.pnl = 500

\* C22: the risk-reward ratio of three prices present with entryPrice
\* different from stopLoss is |takeProfit - entryPrice| / |entryPrice -
\* stopLoss| rounded to 2 decimals: no number of hundredths is nearer to the
\* quotient; it is 0 when entryPrice equals stopLoss or a price is missing.
C22_RiskRewardRatio ==
  last.act = "calculateRR" =>
    IF \/ last.in.entryPrice = Unset \/ last.in.stopLoss = Unset \/ last.in.takeProfit = Unset
       \/ last.in.entryPrice = last.in.stopLoss
      THEN last.rr = 0
      ELSE LET risk == Abs(last.in.entryPrice - last.in.stopLoss)
               reward == Abs(last.in.takeProfit - last.in.entryPrice)
           IN /\ last.rr >= 0
              /\ 2 * Abs(last.rr * risk - 100 * reward) <= risk

\* The ratio of a reward of 2 to a risk of 3 has been calculated: 0.67.
C22_Witness ==
  /\ last.act = "calculateRR"
  /\ last.in.entryPrice = 4 /\ last.in.stopLoss = 1 /\ last.in.takeProfit = 2
  /\ last.rr = 67

\* The update just answered was issued before another request that has been
\* answered already: its response is the one that arrived last.
AnsweredLast ==
  /\ last.act = "updateTradeOk"
  /\ last.op.n < opCount
  /\ \A op \in inflight : op.n < last.op.n

\* C23: when the response of an update is applied after that of an update
\* issued later, the local record carries the data of the response applied
\* last, that of the update issued first.
C23_LastResponseWins ==
  AnsweredLast =>
    \A t \in Range(trades) : t._id = last.op.trade._id => t = last.op.trade

\* U1 (note "n1") and then U2 (note "") of the same record were issued, U2
\* was answered first, its data was in the collection and at the backend,
\* and U1's response has now been applied over it.
C23_Witness ==
  /\ AnsweredLast
  /\ last.op.n = 2 /\ opCount = 3 /\ inflight = {}
  /\ last.op.trade.note = "n1"
  /\ \E t \in Range(last.pre) : t._id = last.op.trade._id /\ t.note = ""
  /\ \E t \in Range(last.srv) : t._id = last.op.trade._id /\ t.note = ""
  /\ \E t \in Range(trades) : t = last.op.trade

\* C24: once the request of a delete has succeeded and no request is in
\* flight, the collection holds no record of the deleted identifier.
C24_DeletedRecordStaysGone ==
  (last.act = "deleteTradeOk" /\ inflight = {}) =>
    \A id \in last.op.ids : id \notin Ids(trades)

\* C25: the records of the collection that have an identifier have
\* pairwise distinct identifiers.
C25_IdentifiersDistinct ==
  \A i, j \in 1..Len(trades) :
    (i < j /\ trades[i]._id # NoId /\ trades[j]._id # NoId) => trades[i]._id # trades[j]._id

\* C26: when a bulkCreate that ran on its own succeeds, every record with an
\* identifier that was in the collection is still in it, and the records the
\* backend returned are in it.
C26_BulkCreateKeepsIdentified ==
  (last.act = "bulkAddOk" /\ Alone(last.op)) =>
    /\ \A t \in Range(last.pre) : t._id # NoId => t \in Range(trades)
    /\ \A k \in 1..Len(last.op.batch) :
         \E t \in Range(trades) : t._id # NoId /\ SameTrade(t, last.op.batch[k])

\* C27: whenever the form is closed, edit mode is off: isEditMode is false
\* and editingTradeId is null.
C27_ClosedFormNotInEditMode ==
  ~showForm => (~isEditMode /\ editingTradeId = NoId)

\* C28: when the create or update request of a submission fails, the
\* submission ends with formError set, the form open and the draft holding
\* the values that were submitted.
C28_FailedSubmitKeepsForm ==
  (last.act \in {"addTradeFail", "updateTradeFail"} /\ last.op.viaSubmit) =>
    /\ formError # Null
    /\ showForm
    /\ formData.symbol = last.op.trade.symbol
    /\ formData.entryPrice = last.op.trade.entryPrice
    /\ formData.stopLoss = last.op.trade.stopLoss
    /\ formData.takeProfit = last.op.trade.takeProfit

\* C29: once an operation has been started and every request has been
\* answered, isLoading and isSubmitting are both false.
C29_FlagsClearWhenIdle ==
  (inflight = {} /\ opCount > 0) => (~isLoading /\ ~isSubmitting)

\* The create of a submission has failed after the load, and no request is
\* left in flight.
C29_Witness ==
  /\ last.act = "addTradeFail" /\ last.op.viaSubmit
  /\ opCount >= 2 /\ inflight = {}
  /\ ~isLoading /\ ~isSubmitting

\* C30: the metrics of the table's utils give the results of the module's
\* metrics for every input, a price or the quantity zero or missing included.
C30_TableMetricsAgree ==
  last.act = "compareMetrics" => last.table = last.engine

====
